---- MODULE Spec2Model ----
(***************************************************************************)
(* Model of terraform/modules/lambda_images/src/image_processor.py: the    *)
(* SQS-triggered image worker (cold start, lambda_handler, resize_image),  *)
(* the S3 bucket and DynamoDB table it writes and the queue trigger that   *)
(* delivers and redelivers batches.                                        *)
(*                                                                         *)
(* Strings the code inspects (object keys, prefixes, environment values)   *)
(* are sequences of one-character strings, so that startswith, rstrip,     *)
(* basename and unquote_plus are computed, not assumed.                    *)
(***************************************************************************)
EXTENDS Integers, Sequences, FiniteSets, TLC

\* ------------------------------------------------------------------ bounds
MaxRecords == 2    \* size of a delivered batch: S3 records, a message without any counting 1
MaxInvocations == 2 \* handler invocations per behaviour
MaxTime == 1       \* the epoch clock runs over 0..MaxTime
MaxSide == 5       \* widths, heights and target widths of the resize laws: 1..MaxSide
MaxEpoch == 2      \* the clock of the lock table's TTL refresher runs over 0..MaxEpoch
MaxChanges == 2    \* changes other writers make to the lock table
MaxBatch == 2      \* stream records per invocation of the TTL refresher

\* ------------------------------------------------------------ string layer
\* str.startswith
StartsWith(s, p) == Len(p) <= Len(s) /\ SubSeq(s, 1, Len(p)) = p

RECURSIVE RStrip(_, _)
\* str.rstrip(c): every trailing c removed
RStrip(s, c) ==
    IF s # <<>> /\ s[Len(s)] = c THEN RStrip(SubSeq(s, 1, Len(s) - 1), c) ELSE s

RECURSIVE RFind(_, _)
\* str.rfind(c) + 1: the position of the last c, 0 when there is none
RFind(s, c) ==
    IF s = <<>> THEN 0
    ELSE IF s[Len(s)] = c THEN Len(s) ELSE RFind(SubSeq(s, 1, Len(s) - 1), c)

\* os.path.basename: what follows the last "/"
BaseName(p) == SubSeq(p, RFind(p, "/") + 1, Len(p))

\* the percent escapes that occur in the modelled keys
HexTable ==
    (<<"2", "F">> :> "/") @@ (<<"2", "f">> :> "/") @@ (<<"2", "B">> :> "+")
    @@ (<<"2", "0">> :> " ") @@ (<<"2", "5">> :> "%")

RECURSIVE UnquotePlus(_)
\* urllib.parse.unquote_plus: "+" is a space, %XX is the escaped character,
\* a "%" that starts no valid escape is kept
UnquotePlus(s) ==
    IF s = <<>> THEN <<>>
    ELSE IF s[1] = "+" THEN <<" ">> \o UnquotePlus(Tail(s))
    ELSE IF s[1] = "%" /\ Len(s) >= 3 /\ <<s[2], s[3]>> \in DOMAIN HexTable
         THEN <<HexTable[<<s[2], s[3]>>]>> \o UnquotePlus(SubSeq(s, 4, Len(s)))
    ELSE <<s[1]>> \o UnquotePlus(Tail(s))

RECURSIVE S3Encode(_)
\* the key as an S3 event notification carries it (URL-encoded)
S3Encode(s) ==
    IF s = <<>> THEN <<>>
    ELSE (CASE s[1] = " " -> <<"+">>
            [] s[1] = "+" -> <<"%", "2", "B">>
            [] s[1] = "%" -> <<"%", "2", "5">>
            [] OTHER -> <<s[1]>>) \o S3Encode(Tail(s))

DigitValue ==
    ("0" :> 0) @@ ("1" :> 1) @@ ("2" :> 2) @@ ("3" :> 3) @@ ("4" :> 4)
    @@ ("5" :> 5) @@ ("6" :> 6) @@ ("7" :> 7) @@ ("8" :> 8) @@ ("9" :> 9)

\* int(text) succeeds on a non-empty run of decimal digits
IsInt(s) == s # <<>> /\ \A n \in 1..Len(s) : s[n] \in DOMAIN DigitValue

RECURSIVE ParseInt(_)
ParseInt(s) ==
    IF s = <<>> THEN 0
    ELSE 10 * ParseInt(SubSeq(s, 1, Len(s) - 1)) + DigitValue[s[Len(s)]]

Max2(a, b) == IF a >= b THEN a ELSE b

\* ------------------------------------------------------------- the universe
Buckets == {"m", "n"}

K_ua == <<"u", "/", "a">>
K_va == <<"v", "/", "a">>
K_pa_escaped == <<"p", "%", "2", "F", "a">>

\* the S3 records a queued message may carry: bucket and URL-encoded key
Notifs ==
    { [bucket |-> "m", key |-> K_ua],
      [bucket |-> "m", key |-> K_va],
      [bucket |-> "m", key |-> K_pa_escaped] }

RECURSIVE SeqsUpTo(_, _)
\* the sequences over S of length at most n
SeqsUpTo(S, n) ==
    IF n = 0 THEN {<<>>}
    ELSE LET shorter == SeqsUpTo(S, n - 1)
         IN shorter \cup {Append(q, x) : q \in {r \in shorter : Len(r) = n - 1}, x \in S}

\* an SQS record: a body json.loads accepts, with its S3 records, or one it rejects
Malformed == [ok |-> FALSE, Records |-> <<>>]
Messages ==
    {[ok |-> TRUE, Records |-> r] : r \in SeqsUpTo(Notifs, MaxRecords) \ {<<>>}} \cup {Malformed}

RECURSIVE BatchSize(_)
BatchSize(b) ==
    IF b = <<>> THEN 0 ELSE Max2(Len(b[1].Records), 1) + BatchSize(Tail(b))

\* event['Records'] of one delivery
Batches == {b \in SeqsUpTo(Messages, MaxRecords) : b # <<>> /\ BatchSize(b) <= MaxRecords}

\* image files by their pixel size; NotAnImage is a file PIL cannot open
NotAnImage == [w |-> 0, h |-> 0]
Img(w, h) == [w |-> w, h |-> h]
Uploadable == {Img(1, 1), NotAnImage}
InitialBucket ==
    (<<"m", K_ua>> :> Img(4, 2)) @@ (<<"m", K_va>> :> Img(2, 3))

\* what the deployment may put in the worker's environment
EnvVars == {"DESTINATION_PREFIX", "TARGET_WIDTH", "DYNAMODB_TABLE_NAME"}
EnvValues ==
    ("DESTINATION_PREFIX" :> {<<>>, <<"p", "/">>, <<"p">>, <<"p", "/", "/">>})
    @@ ("TARGET_WIDTH" :> {<<"2">>, <<"x">>})
    @@ ("DYNAMODB_TABLE_NAME" :> {<<"t">>})
Envs ==
    UNION { {e \in [D -> UNION {EnvValues[v] : v \in EnvVars}] : \A v \in D : e[v] \in EnvValues[v]}
            : D \in SUBSET EnvVars }

\* ------------------------------------------------------------ resize_image
AbsDiff(a, b) == IF a >= b THEN a - b ELSE b - a
CeilDiv(a, b) == (a + b - 1) \div b

\* Image.thumbnail((width, width)): the image is left alone when it fits the
\* box; otherwise the side the box binds is set to width and the other one to
\* whichever of floor/ceil of the proportional size keeps the aspect ratio
\* best (floor on a tie), at least 1
Thumbnail(img, width) ==
    IF width >= img.w /\ width >= img.h THEN img
    ELSE IF img.h >= img.w
    THEN LET lo == (width * img.w) \div img.h
             hi == CeilDiv(width * img.w, img.h)
             \* |w/h - n/width| compared over the common denominator h*width
             key(n) == AbsDiff(img.w * width, n * img.h)
             x == IF key(lo) <= key(hi) THEN lo ELSE hi
         IN Img(Max2(x, 1), width)
    ELSE LET lo == (width * img.h) \div img.w
             hi == CeilDiv(width * img.h, img.w)
             \* |w/h - width/n|, 0 for n = 0, compared over the denominators
             num(n) == IF n = 0 THEN 0 ELSE AbsDiff(img.w * n, width * img.h)
             den(n) == IF n = 0 THEN 1 ELSE n
             y == IF num(lo) * den(hi) <= num(hi) * den(lo) THEN lo ELSE hi
         IN Img(width, Max2(y, 1))

\* os.path.getsize of the saved file: the encoded size grows with the pixels
FileSize(img) == img.w * img.h

\* -------------------------------------------------------------------- state
VARIABLES
    env,                 \* os.environ of the worker process
    DESTINATION_PREFIX,  \* module globals, set by the cold start
    TARGET_WIDTH,
    TABLE_NAME,
    startupError,        \* the exception the cold start raised, if any
    pc,                  \* where the worker is
    event,               \* event['Records'] of the current invocation
    i,                   \* position of sqs_record in event['Records']
    j,                   \* position of s3_record in s3_event_body['Records']
    local,               \* the loop body's local variables
    s3,                  \* the object store: <<bucket, key>> -> file
    table,               \* the DynamoDB table: a set of items
    now,                 \* int(time.time())
    emitted,             \* S3 notifications raised by the worker's own uploads
    log,                 \* side effects of the current invocation, in order
    errored,             \* an exception was raised in the current invocation
    invocations,         \* invocations started so far
    recorded,            \* <<bucket, key>> -> how many times its item was written
    producedIn,          \* ImageID -> bucket of the record that wrote the item
    snap,                \* stores at the first delivery of the current batch
    failedBefore         \* a delivery of the current batch failed since snap

config == <<env, DESTINATION_PREFIX, TARGET_WIDTH, TABLE_NAME, startupError>>
frame == <<event, i, j, local>>
stores == <<s3, table, emitted, recorded, producedIn>>
history == <<log, errored>>
trigger == <<invocations, snap, failedBefore>>
vars == <<config, pc, frame, stores, now, history, trigger>>

\* state of update_ttl.py: the lock table, its stream and the refresher
VARIABLES
    locks,               \* LockID -> ExpirationTime of the items of the lock table
    epoch,               \* int(time.time()) as the refresher reads it
    stream,              \* records of the table's stream not yet delivered, in order
    run,                 \* invocation slot -> locals of lambda_handler in update_ttl.py
    changes              \* changes made to the table by other writers so far

ttlVars == <<locks, epoch, stream, run, changes>>

\* an invocation slot that is not running
NoRun ==
    [pc |-> "idle", records |-> <<>>, idx |-> 0, lock_id |-> "",
     current_expiration |-> 0, new_expiration_time |-> 0,
     processed_records |-> 0, failed_records |-> 0, statusCode |-> 0, handled |-> {}]

Slots == {1, 2}

\* the lock table is empty and nothing runs
TtlAtRest ==
    /\ locks = <<>>
    /\ epoch = 0
    /\ stream = <<>>
    /\ run = [p \in Slots |-> NoRun]
    /\ changes = 0

\* state of create_read_replica.py and delete_read_replica.py: the tracking
\* table, the database instances, the topic and the running invocations
VARIABLES
    renv,                \* os.environ of the two functions
    keySchema,           \* key attributes of the tracking table
    tracking,            \* items of the tracking table
    rds,                 \* DBInstanceIdentifier -> state of the replicas that exist
    published,           \* subjects published to the topic, in order
    call,                \* invocation slot -> locals of the running lambda_handler
    calls,               \* invocations started so far
    chosen               \* what get_next_replica_index returned and what was recorded then

replicaVars == <<renv, keySchema, tracking, rds, published, call, calls, chosen>>

\* an invocation slot that is not running
NoCall ==
    [pc |-> "idle", fn |-> "", db_instance_identifier |-> "",
     read_replica_identifier |-> "", replica_index |-> 0, event |-> "", described |-> "",
     status |-> "", subject |-> "", effects |-> <<>>]

ReplicaSlots == {1, 2}

\* no replica exists, nothing is tracked and nothing runs
ReplicaAtRest ==
    /\ renv = [DYNAMODB_TABLE_NAME |-> "replicas", DB_INSTANCE_IDENTIFIER |-> "db",
               READ_REPLICA_IDENTIFIER |-> "", SNS_TOPIC_ARN |-> "arn"]
    /\ keySchema = <<"db_instance_identifier", "replica_index">>
    /\ tracking = {}
    /\ rds = <<>>
    /\ published = <<>>
    /\ call = [c \in ReplicaSlots |-> NoCall]
    /\ calls = 0
    /\ chosen = <<>>

NoItem ==
    [ImageID |-> <<>>, Status |-> "", SourceKey |-> <<>>, ProcessedKey |-> <<>>,
     ProcessedSize |-> 0, TargetWidth |-> 0, ProcessingTimestamp |-> 0]
NoLocal ==
    [source_bucket |-> "", object_key |-> <<>>, file_name |-> <<>>,
     downloaded |-> NotAnImage, resized |-> NotAnImage,
     destination_key |-> <<>>, item_to_save |-> NoItem]

Init ==
    /\ env \in Envs
    /\ DESTINATION_PREFIX = <<>>
    /\ TARGET_WIDTH = 0
    /\ TABLE_NAME = <<>>
    /\ startupError = [type |-> "", names |-> <<>>]
    /\ pc = "cold"
    /\ event = <<>>
    /\ i = 0
    /\ j = 0
    /\ local = NoLocal
    /\ s3 = InitialBucket
    /\ table = {}
    /\ now = 0
    /\ emitted = {}
    /\ log = <<>>
    /\ errored = FALSE
    /\ invocations = 0
    /\ recorded = <<>>
    /\ producedIn = <<>>
    /\ snap = [s3 |-> InitialBucket, table |-> {}]
    /\ failedBefore = FALSE
    /\ TtlAtRest
    /\ ReplicaAtRest

\* ---------------------------------------------------------------- cold start
\* `not os.environ.get(name)`: unset or empty
Falsy(name) == name \notin DOMAIN env \/ env[name] = <<>>

\* the names the sanity check collects, in the order it appends them
MissingEnvVars ==
    (IF Falsy("DYNAMODB_TABLE_NAME") THEN <<"DYNAMODB_TABLE_NAME">> ELSE <<>>)
    \o (IF Falsy("DESTINATION_PREFIX") THEN <<"DESTINATION_PREFIX">> ELSE <<>>)

\* the exception module import ends with; type "" when it completes
StartupOutcome ==
    IF "TARGET_WIDTH" \notin DOMAIN env
    THEN [type |-> "KeyError", names |-> <<"TARGET_WIDTH">>]
    ELSE IF ~IsInt(env["TARGET_WIDTH"])
    THEN [type |-> "ValueError", names |-> <<>>]
    ELSE IF MissingEnvVars # <<>>
    THEN [type |-> "ValueError", names |-> MissingEnvVars]
    ELSE [type |-> "", names |-> <<>>]

ColdStart ==
    /\ pc = "cold"
    /\ startupError' = StartupOutcome
    /\ IF StartupOutcome.type = ""
       THEN /\ DESTINATION_PREFIX' = env["DESTINATION_PREFIX"]
            /\ TARGET_WIDTH' = ParseInt(env["TARGET_WIDTH"])
            /\ TABLE_NAME' = env["DYNAMODB_TABLE_NAME"]
            /\ pc' = "idle"
       ELSE /\ UNCHANGED <<DESTINATION_PREFIX, TARGET_WIDTH, TABLE_NAME>>
            /\ pc' = "crashed"
    /\ UNCHANGED <<ttlVars, replicaVars, env, frame, stores, now, history, trigger>>

\* a record whose destination object exists already is taken as done
LoopGuardOrPublished(object_key) ==
    \/ StartsWith(object_key, DESTINATION_PREFIX)
    \/ \E bucket \in Buckets :
          <<bucket, RStrip(DESTINATION_PREFIX, "/") \o <<"/">> \o BaseName(object_key)>>
              \in DOMAIN s3

\* ------------------------------------------------------------ lambda_handler
\* the guard with its operands exchanged
LoopGuardSwapped(object_key) == StartsWith(DESTINATION_PREFIX, object_key)

\* the loop guard: the decoded key already lives under the destination prefix
LoopGuard(object_key) == StartsWith(object_key, DESTINATION_PREFIX)

\* the prefix is joined as it is, trailing slashes included
DestinationKeyPlain(prefix, file_name) == prefix \o <<"/">> \o file_name

\* a destination name made unique with the time of the run
DestinationKeyStamped(prefix, file_name) ==
    RStrip(prefix, "/") \o <<"/">> \o <<CHOOSE c \in DOMAIN DigitValue : DigitValue[c] = now>>
    \o file_name

\* f"{DESTINATION_PREFIX.rstrip('/')}/{file_name}"
DestinationKey(prefix, file_name) == RStrip(prefix, "/") \o <<"/">> \o file_name

\* an upload that goes to one fixed bucket instead of the source's
UploadFileElsewhere(store, bucket, key, file) ==
    [o \in DOMAIN store \cup {<<"n", key>>} |->
        IF o = <<"n", key>> THEN file ELSE store[o]]

\* s3_client.upload_file(path, bucket, key): the object is created or replaced
UploadFile(store, bucket, key, file) ==
    [o \in DOMAIN store \cup {<<bucket, key>>} |->
        IF o = <<bucket, key>> THEN file ELSE store[o]]

\* an item keyed by the whole object key instead of the base name
ItemKeyedByObjectKey(file_name, object_key, destination_key, processed_size, timestamp) ==
    [ImageID |-> object_key, Status |-> "processed", SourceKey |-> object_key,
     ProcessedKey |-> destination_key, ProcessedSize |-> processed_size,
     TargetWidth |-> TARGET_WIDTH, ProcessingTimestamp |-> timestamp]

ItemToSave(file_name, object_key, destination_key, processed_size, timestamp) ==
    [ImageID |-> file_name, Status |-> "processed", SourceKey |-> object_key,
     ProcessedKey |-> destination_key, ProcessedSize |-> processed_size,
     TargetWidth |-> TARGET_WIDTH, ProcessingTimestamp |-> timestamp]

\* a write that adds the item and leaves an older one in place
PutItemAppend(tbl, item) == tbl \cup {item}

\* table.put_item(Item=item): the item replaces the one with its partition key
PutItem(tbl, item) == {r \in tbl : r.ImageID # item.ImageID} \cup {item}

\* `break` in place of `continue`: the rest of the message is left out
AfterSkipBreak(pos, count) == count + 1

\* `continue` after the loop guard: on to the next S3 record of the message
AfterSkip(pos, count) == pos + 1

\* the handler logs the error and goes on with the next sqs_record
OnExceptionSwallow(pos) == [pc |-> "loop_sqs", i |-> pos + 1]

\* `except Exception as e: ... raise e`: the invocation ends in failure
OnException(pos) == [pc |-> "failed", i |-> pos]

Runs(object) == IF object \in DOMAIN recorded THEN recorded[object] ELSE 0

Effect(op) ==
    [op |-> op, i |-> i, j |-> j, bucket |-> local.source_bucket, key |-> local.object_key]

\* what the record at hand has produced once its item is written: the uploaded
\* file under destination_key, and the item
Completed(item) ==
    [op |-> "put", i |-> i, j |-> j, bucket |-> local.source_bucket,
     key |-> local.object_key, destination_key |-> local.destination_key,
     file |-> local.resized, item |-> item]

\* the exception leaves the loop body: its locals are gone
Raise ==
    /\ pc' = OnException(i).pc
    /\ i' = OnException(i).i
    /\ local' = NoLocal
    /\ errored' = TRUE
    /\ failedBefore' = TRUE

\* for sqs_record in event['Records']: json.loads(sqs_record['body'])
ParseMessage ==
    /\ pc = "loop_sqs"
    /\ i <= Len(event)
    /\ event[i].ok
    /\ pc' = "loop_s3"
    /\ j' = 1
    /\ UNCHANGED <<ttlVars, replicaVars, config, event, i, local, stores, now, history, trigger>>

\* json.loads or a subscript of the parsed body raises
ParseFails ==
    /\ pc = "loop_sqs"
    /\ i <= Len(event)
    /\ ~event[i].ok
    /\ Raise
    /\ UNCHANGED <<ttlVars, replicaVars, config, event, j, stores, now, log, invocations, snap>>

\* the loop over event['Records'] is exhausted: return statusCode 200
ReturnOk ==
    /\ pc = "loop_sqs"
    /\ i > Len(event)
    /\ pc' = "ok"
    /\ UNCHANGED <<ttlVars, replicaVars, config, frame, stores, now, history, trigger>>

\* the loop over s3_event_body['Records'] is exhausted: next sqs_record
EndOfMessage ==
    /\ pc = "loop_s3"
    /\ j > Len(event[i].Records)
    /\ pc' = "loop_sqs"
    /\ i' = i + 1
    /\ j' = 0
    /\ local' = NoLocal
    /\ UNCHANGED <<ttlVars, replicaVars, config, event, stores, now, history, trigger>>

\* the decoded key starts with DESTINATION_PREFIX: warn and continue
SkipRecord ==
    /\ pc = "loop_s3"
    /\ j <= Len(event[i].Records)
    /\ LET s3_record == event[i].Records[j]
           object_key == UnquotePlus(s3_record.key)
       IN /\ LoopGuard(object_key)
          /\ log' = Append(log, [op |-> "skip", i |-> i, j |-> j,
                                 bucket |-> s3_record.bucket, key |-> object_key])
    /\ j' = AfterSkip(j, Len(event[i].Records))
    /\ local' = NoLocal
    /\ UNCHANGED <<ttlVars, replicaVars, config, pc, event, i, stores, now, errored, trigger>>

\* the key passes the loop guard: bucket, decoded key and base name are bound
BeginRecord ==
    /\ pc = "loop_s3"
    /\ j <= Len(event[i].Records)
    /\ LET s3_record == event[i].Records[j]
           object_key == UnquotePlus(s3_record.key)
       IN /\ ~LoopGuard(object_key)
          /\ local' = [NoLocal EXCEPT !.source_bucket = s3_record.bucket,
                                      !.object_key = object_key,
                                      !.file_name = BaseName(object_key)]
    /\ pc' = "download"
    /\ UNCHANGED <<ttlVars, replicaVars, config, event, i, j, stores, now, history, trigger>>

\* s3_client.download_file(source_bucket, object_key, download_path)
Download ==
    /\ pc = "download"
    /\ <<local.source_bucket, local.object_key>> \in DOMAIN s3
    /\ local.file_name # <<>>
    /\ local' = [local EXCEPT !.downloaded = s3[<<local.source_bucket, local.object_key>>]]
    /\ log' = Append(log, Effect("download"))
    /\ pc' = "resize"
    /\ UNCHANGED <<ttlVars, replicaVars, config, event, i, j, stores, now, errored, trigger>>

\* the object does not exist, or the download path is the directory /tmp/
DownloadFails ==
    /\ pc = "download"
    /\ \/ <<local.source_bucket, local.object_key>> \notin DOMAIN s3
       \/ local.file_name = <<>>
    /\ Raise
    /\ UNCHANGED <<ttlVars, replicaVars, config, event, j, stores, now, log, invocations, snap>>

\* resize_image(download_path, upload_path, TARGET_WIDTH)
Resize ==
    /\ pc = "resize"
    /\ local.downloaded # NotAnImage
    /\ local' = [local EXCEPT !.resized = Thumbnail(local.downloaded, TARGET_WIDTH)]
    /\ log' = Append(log, Effect("resize"))
    /\ pc' = "upload"
    /\ UNCHANGED <<ttlVars, replicaVars, config, event, i, j, stores, now, errored, trigger>>

\* Image.open rejects the file
ResizeFails ==
    /\ pc = "resize"
    /\ local.downloaded = NotAnImage
    /\ Raise
    /\ UNCHANGED <<ttlVars, replicaVars, config, event, j, stores, now, log, invocations, snap>>

\* destination_key is built and the resized file uploaded to source_bucket;
\* the bucket raises an object-created notification for the new key
Upload ==
    /\ pc = "upload"
    /\ LET destination_key == DestinationKey(DESTINATION_PREFIX, local.file_name)
       IN /\ local' = [local EXCEPT !.destination_key = destination_key]
          /\ s3' = UploadFile(s3, local.source_bucket, destination_key, local.resized)
          /\ emitted' = emitted \cup
                 {[bucket |-> local.source_bucket, key |-> S3Encode(destination_key)]}
    /\ log' = Append(log, Effect("upload"))
    /\ pc' = "put"
    /\ UNCHANGED <<ttlVars, replicaVars, config, event, i, j, table, recorded, producedIn, now, errored, trigger>>

\* the item is written while the resized file is still to be uploaded
WriteMetadataBeforeUpload ==
    \/ /\ pc = "upload"
       /\ local.item_to_save = NoLocal.item_to_save
       /\ LET item == ItemToSave(local.file_name, local.object_key,
                                 DestinationKey(DESTINATION_PREFIX, local.file_name),
                                 FileSize(local.resized), now)
          IN /\ local' = [local EXCEPT !.item_to_save = item]
             /\ table' = PutItem(table, item)
             /\ log' = Append(log, Completed(item))
       /\ producedIn' = (local.file_name :> local.source_bucket) @@ producedIn
       /\ recorded' = (<<local.source_bucket, local.object_key>> :>
                           Runs(<<local.source_bucket, local.object_key>>) + 1) @@ recorded
       /\ UNCHANGED <<ttlVars, replicaVars, config, pc, event, i, j, s3, emitted, now, errored, trigger>>
    \/ /\ pc = "put"
       /\ pc' = "saved"
       /\ UNCHANGED <<ttlVars, replicaVars, config, frame, stores, now, history, trigger>>

\* item_to_save is built and written with table.put_item
WriteMetadata ==
    /\ pc = "put"
    /\ LET item == ItemToSave(local.file_name, local.object_key, local.destination_key,
                              FileSize(local.resized), now)
       IN /\ local' = [local EXCEPT !.item_to_save = item]
          /\ table' = PutItem(table, item)
          /\ producedIn' = (local.file_name :> local.source_bucket) @@ producedIn
    /\ recorded' = (<<local.source_bucket, local.object_key>> :>
                        Runs(<<local.source_bucket, local.object_key>>) + 1) @@ recorded
    /\ log' = Append(log, Completed(ItemToSave(local.file_name, local.object_key,
                                               local.destination_key,
                                               FileSize(local.resized), now)))
    /\ pc' = "saved"
    /\ UNCHANGED <<ttlVars, replicaVars, config, event, i, j, s3, emitted, now, errored, trigger>>

\* "Metadata saved" is logged; on to the next S3 record of the message
NextRecord ==
    /\ pc = "saved"
    /\ pc' = "loop_s3"
    /\ j' = j + 1
    /\ local' = NoLocal
    /\ UNCHANGED <<ttlVars, replicaVars, config, event, i, stores, now, history, trigger>>

\* S3, PIL or DynamoDB raises in the call the worker is about to make
CollaboratorError ==
    /\ pc \in {"download", "resize", "upload", "put"}
    /\ Raise
    /\ UNCHANGED <<ttlVars, replicaVars, config, event, j, stores, now, log, invocations, snap>>

\* ------------------------------------------------- the trigger and the clock
StartInvocation(batch) ==
    /\ invocations < MaxInvocations
    /\ invocations' = invocations + 1
    /\ event' = batch
    /\ i' = 1
    /\ j' = 0
    /\ local' = NoLocal
    /\ pc' = "loop_sqs"
    /\ log' = <<>>
    /\ errored' = FALSE

\* the queue hands the warm worker a batch
Deliver ==
    /\ pc = "idle"
    /\ \E batch \in Batches : StartInvocation(batch)
    /\ snap' = [s3 |-> s3, table |-> table]
    /\ failedBefore' = FALSE
    /\ UNCHANGED <<ttlVars, replicaVars, config, stores, now>>

\* the invocation failed: the queue redelivers the whole batch
Redrive ==
    /\ pc = "failed"
    /\ StartInvocation(event)
    /\ UNCHANGED <<ttlVars, replicaVars, config, stores, now, snap, failedBefore>>

\* at-least-once delivery: a batch that succeeded is delivered again
Duplicate ==
    /\ pc = "ok"
    /\ StartInvocation(event)
    /\ snap' = [s3 |-> s3, table |-> table]
    /\ failedBefore' = FALSE
    /\ UNCHANGED <<ttlVars, replicaVars, config, stores, now>>

\* a trigger that also watches the destination prefix delivers the
\* notification of one of the worker's own uploads
DeliverPublished ==
    /\ pc \in {"ok", "failed"}
    /\ \E n \in emitted : StartInvocation(<<[ok |-> TRUE, Records |-> <<n>>]>>)
    /\ snap' = [s3 |-> s3, table |-> table]
    /\ failedBefore' = FALSE
    /\ UNCHANGED <<ttlVars, replicaVars, config, stores, now>>

\* the source objects that get replaced while the pipeline runs
Replaceable == {<<"m", K_ua>>}

\* between invocations, later, somebody replaces a source object
PutObject ==
    /\ pc \in {"ok", "failed"}
    /\ now < MaxTime
    /\ now' = now + 1
    /\ \E o \in Replaceable, file \in Uploadable :
          /\ s3' = UploadFile(s3, o[1], o[2], file)
          /\ snap' = [s3 |-> s3', table |-> table]
    /\ failedBefore' = FALSE
    /\ UNCHANGED <<ttlVars, replicaVars, config, pc, frame, table, emitted, recorded, producedIn, history, invocations>>

\* invocations are short: the clock is seen to advance between them
Tick ==
    /\ pc \in {"ok", "failed"}
    /\ now < MaxTime
    /\ now' = now + 1
    /\ UNCHANGED <<ttlVars, replicaVars, config, pc, frame, stores, history, trigger>>

Next ==
    \/ ColdStart
    \/ Deliver
    \/ Redrive
    \/ Duplicate
    \/ DeliverPublished
    \/ PutObject
    \/ Tick
    \/ ParseMessage
    \/ ParseFails
    \/ ReturnOk
    \/ EndOfMessage
    \/ SkipRecord
    \/ BeginRecord
    \/ Download
    \/ DownloadFails
    \/ Resize
    \/ ResizeFails
    \/ Upload
    \/ WriteMetadata
    \/ NextRecord
    \/ CollaboratorError

Spec == Init /\ [][Next]_vars

\* ------------------------------------------------------------------ claims
\* the S3 records of the current batch, by message and place in the message
Positions == UNION {{<<a, b>> : b \in 1..Len(event[a].Records)} : a \in 1..Len(event)}
DecodedKey(pos) == UnquotePlus(event[pos[1]].Records[pos[2]].key)
Did(op, pos) ==
    \E n \in 1..Len(log) : log[n].op = op /\ log[n].i = pos[1] /\ log[n].j = pos[2]
Skipped(pos) == Did("skip", pos)
Recorded(pos) ==
    Did("download", pos) /\ Did("resize", pos) /\ Did("upload", pos) /\ Did("put", pos)

\* C1: a record whose decoded key starts with DESTINATION_PREFIX is skipped at
\* whatever place of the batch it stands: the invocation downloads, resizes,
\* uploads and writes nothing for it.
C1_PrefixedKeyIsSkipped ==
    \A pos \in Positions :
        StartsWith(DecodedKey(pos), DESTINATION_PREFIX)
        => \A n \in 1..Len(log) :
              (log[n].i = pos[1] /\ log[n].j = pos[2]) => log[n].op = "skip"

\* a batch ran to its end in which the second record was skipped after the
\* first one was processed
C1_Witness ==
    /\ pc = "ok"
    /\ \E pos \in Positions :
          /\ StartsWith(DecodedKey(pos), DESTINATION_PREFIX)
          /\ Skipped(pos)
          /\ \E n \in 1..Len(log) : log[n].op = "put" /\ log[n].i <= pos[1]
                                    /\ (log[n].i = pos[1] => log[n].j < pos[2])

\* C3: once a step raised, the invocation is over and failed: the worker stands
\* at the failing record, nothing was done for a record after it, and success
\* is not returned.
C3_WholeBatchAbort ==
    errored =>
        /\ pc = "failed"
        /\ \A n \in 1..Len(log) :
              \/ log[n].i < i
              \/ log[n].i = i /\ log[n].j <= j

\* a step raised after the record's download and a record of the batch remains
C3_Witness ==
    /\ errored
    /\ pc = "failed"
    /\ \E n \in 1..Len(log) : log[n].op = "download" /\ log[n].i = i /\ log[n].j = j
    /\ \E pos \in Positions : pos[1] > i \/ (pos[1] = i /\ pos[2] > j)

\* C4: success is returned only when every message of the batch parsed and
\* every S3 record of it was either skipped by the loop guard or downloaded,
\* resized, uploaded and recorded.
C4_SuccessMeansAllHandled ==
    pc = "ok" =>
        /\ \A a \in 1..Len(event) : event[a].ok
        /\ \A pos \in Positions : Skipped(pos) \/ Recorded(pos)

\* success after a skipped record that was followed by a processed one
C4_Witness ==
    /\ pc = "ok"
    /\ \E p1, p2 \in Positions :
          /\ p1[1] < p2[1] \/ (p1[1] = p2[1] /\ p1[2] < p2[2])
          /\ Skipped(p1)
          /\ Recorded(p2)

\* C5: every item with Status 'processed' points at an object that exists under
\* its ProcessedKey in the bucket of the source object it was produced from.
C5_ProcessedItemHasObject ==
    \A r \in table :
        r.Status = "processed"
        => /\ r.ImageID \in DOMAIN producedIn
           /\ <<producedIn[r.ImageID], r.ProcessedKey>> \in DOMAIN s3

\* an item is in the table in an invocation that went on to fail
C5_Witness ==
    /\ pc = "failed"
    /\ \E r \in table : r.Status = "processed" /\ r.ProcessingTimestamp = now

\* C6: when a record has been processed for the second time, the table holds
\* exactly one item with its ImageID, the one the second run built, and the
\* object at the destination key is what the second run resized.
C6_RedeliveryIdempotent ==
    (pc = "saved" /\ Runs(<<local.source_bucket, local.object_key>>) >= 2)
    => /\ Cardinality({r \in table : r.ImageID = local.file_name}) = 1
       /\ local.item_to_save \in table
       /\ <<local.source_bucket, local.destination_key>> \in DOMAIN s3
       /\ s3[<<local.source_bucket, local.destination_key>>]
              = Thumbnail(local.downloaded, TARGET_WIDTH)

\* the second run came later and found the source object replaced
C6_Witness ==
    /\ pc = "saved"
    /\ Runs(<<local.source_bucket, local.object_key>>) = 2
    /\ local.downloaded = Img(1, 1)
    /\ local.item_to_save.ProcessingTimestamp = 1
    /\ Cardinality(table) = 1

\* C8: a record that passed the loop guard and was processed has its object at
\* the destination prefix joined with the base name of its key, in its own
\* bucket, and exactly one item whose ImageID is that base name.
C8_OneObjectOneItem ==
    \A n \in 1..Len(log) :
        log[n].op = "put"
        => /\ ~StartsWith(log[n].key, DESTINATION_PREFIX)
           /\ <<log[n].bucket,
                RStrip(DESTINATION_PREFIX, "/") \o <<"/">> \o BaseName(log[n].key)>>
                  \in DOMAIN s3
           /\ Cardinality({r \in table : r.ImageID = BaseName(log[n].key)}) = 1

\* u/a of bucket m was processed under the prefix p/
C8_Witness ==
    /\ DESTINATION_PREFIX = <<"p", "/">>
    /\ \E n \in 1..Len(log) :
          log[n].op = "put" /\ log[n].bucket = "m" /\ log[n].key = K_ua
    /\ <<"m", <<"p", "/", "a">>>> \in DOMAIN s3
    /\ \E r \in table : r.ImageID = <<"a">> /\ r.SourceKey = K_ua

\* the S3 records of a batch in delivery order
RECURSIVE Flatten(_)
Flatten(batch) == IF batch = <<>> THEN <<>> ELSE batch[1].Records \o Flatten(Tail(batch))

RECURSIVE RunRecords(_, _)
\* the stores after the loop body ran for each record without any failure
\* (ok is FALSE when a record cannot be processed at all)
RunRecords(st, records) ==
    IF records = <<>> \/ ~st.ok THEN st
    ELSE LET source_bucket == records[1].bucket
             object_key == UnquotePlus(records[1].key)
             file_name == BaseName(object_key)
             destination_key == DestinationKey(DESTINATION_PREFIX, file_name)
         IN IF LoopGuard(object_key) THEN RunRecords(st, Tail(records))
            ELSE IF \/ <<source_bucket, object_key>> \notin DOMAIN st.s3
                    \/ st.s3[<<source_bucket, object_key>>] = NotAnImage
            THEN [st EXCEPT !.ok = FALSE]
            ELSE LET resized == Thumbnail(st.s3[<<source_bucket, object_key>>], TARGET_WIDTH)
                 IN RunRecords(
                        [s3 |-> UploadFile(st.s3, source_bucket, destination_key, resized),
                         table |-> PutItem(st.table,
                                       ItemToSave(file_name, object_key, destination_key,
                                                  FileSize(resized), now)),
                         ok |-> TRUE],
                        Tail(records))

\* one failure-free run of the batch from the stores as they were at snap
FailureFreeRun ==
    RunRecords([s3 |-> snap.s3, table |-> snap.table,
                ok |-> \A a \in 1..Len(event) : event[a].ok],
               Flatten(event))

TimestampsAside(tbl) == {[r EXCEPT !.ProcessingTimestamp = 0] : r \in tbl}

\* C7: when a delivery of a batch failed and the redelivered batch succeeds,
\* every record of the batch was handled again in the successful run, and the
\* bucket and the table (timestamps aside) are those of one failure-free run of
\* the batch.
C7_RedriveEqualsCleanRun ==
    (pc = "ok" /\ failedBefore)
    => /\ \A pos \in Positions : Skipped(pos) \/ Recorded(pos)
       /\ FailureFreeRun.ok
       /\ s3 = FailureFreeRun.s3
       /\ Cardinality(table) = Cardinality(FailureFreeRun.table)
       /\ TimestampsAside(table) = TimestampsAside(FailureFreeRun.table)

\* the failed delivery had already recorded the first of two records, and the
\* redelivery ran at a later time
C7_Witness ==
    /\ pc = "ok"
    /\ failedBefore
    /\ Len(Flatten(event)) = 2
    /\ \A pos \in Positions : Recorded(pos) /\ Runs(<<"m", DecodedKey(pos)>>) >= 2
    /\ \E r \in table : r.ProcessingTimestamp = 1
    /\ snap.table = {}

\* C2: every key the worker uploads is rejected by the loop guard when its
\* notification comes back to the worker.
C2_PublishedKeyIsGuarded ==
    \A n \in emitted : LoopGuard(UnquotePlus(n.key))

\* C9: after a successful batch, distinct processed source objects have
\* distinct destination objects and distinct items.
C9_DistinctSourcesDistinctOutputs ==
    pc = "ok" =>
        \A p1, p2 \in Positions :
            LET o1 == <<event[p1[1]].Records[p1[2]].bucket, DecodedKey(p1)>>
                o2 == <<event[p2[1]].Records[p2[2]].bucket, DecodedKey(p2)>>
                dest(o) == <<o[1], DestinationKey(DESTINATION_PREFIX, BaseName(o[2]))>>
            IN (Recorded(p1) /\ Recorded(p2) /\ o1 # o2)
               => /\ dest(o1) # dest(o2)
                  /\ \E r1, r2 \in table :
                        r1 # r2 /\ r1.SourceKey = o1[2] /\ r2.SourceKey = o2[2]

Range(f) == {f[x] : x \in DOMAIN f}

\* C10: whatever subset of the three options is unset, the cold start fails,
\* before any invocation, with one error that names every unset option.
C10_AggregateStartupError ==
    LET unset == EnvVars \ DOMAIN env
    IN (pc # "cold" /\ unset # {})
       => /\ pc = "crashed"
          /\ invocations = 0
          /\ Range(startupError.names) = unset

\* C11: after an invocation has failed, what every record completed earlier in
\* it produced is still there and unchanged: the file it uploaded is the object
\* under its destination key and the item it wrote is in the table.
C11_NoRollbackOnFailure ==
    pc = "failed" =>
        \A n \in 1..Len(log) :
            log[n].op = "put"
            => /\ <<log[n].bucket, log[n].destination_key>> \in DOMAIN s3
               /\ s3[<<log[n].bucket, log[n].destination_key>>] = log[n].file
               /\ log[n].item \in table

\* the step of the loop body that goes before each step
StepBefore == [resize |-> "download", upload |-> "resize", put |-> "upload"]

\* C13: the effects of an invocation happen in the order of the batch: messages
\* in delivery order, the S3 records of a message in order, nothing for a
\* record once something was done for a later one, and for one record the
\* download, then the resize, then the upload, then the item.
C13_StrictOrder ==
    \A n \in 1..Len(log) :
        /\ n > 1
           => \/ log[n - 1].i < log[n].i
              \/ log[n - 1].i = log[n].i /\ log[n - 1].j < log[n].j
              \/ /\ log[n - 1].i = log[n].i /\ log[n - 1].j = log[n].j
                 /\ log[n].op \in DOMAIN StepBefore
        /\ log[n].op \in DOMAIN StepBefore
           => /\ n > 1
              /\ log[n - 1].op = StepBefore[log[n].op]
              /\ log[n - 1].i = log[n].i /\ log[n - 1].j = log[n].j

\* two messages of one record each were both processed, one after the other
C13_Witness ==
    /\ pc = "ok"
    /\ Len(event) = 2
    /\ Len(log) = 8
    /\ Recorded(<<1, 1>>) /\ Recorded(<<2, 1>>)

\* C14: a skipped record is no failure: the invocation does not fail at it, the
\* worker goes on with the record that follows it (it stands at that record or
\* has done something for it), and an invocation whose messages all parsed and
\* whose records were all skipped or processed has not failed.
C14_SkipIsNotFailure ==
    /\ \A n \in 1..Len(log) :
          log[n].op = "skip"
          => /\ ~(pc = "failed" /\ i = log[n].i /\ j = log[n].j)
             /\ i > log[n].i \/ (i = log[n].i /\ j > log[n].j)
             /\ log[n].j < Len(event[log[n].i].Records)
                => \/ i = log[n].i /\ j = log[n].j + 1
                   \/ /\ n < Len(log)
                      /\ log[n + 1].i = log[n].i
                      /\ log[n + 1].j = log[n].j + 1
    /\ (errored \/ pc = "failed")
       => \/ \E a \in 1..Len(event) : ~event[a].ok
          \/ \E pos \in Positions : ~(Skipped(pos) \/ Recorded(pos))

\* a batch of two records that were both skipped returned success
C14_Witness ==
    /\ pc = "ok"
    /\ Len(Flatten(event)) = 2
    /\ \A pos \in Positions : Skipped(pos)
    /\ \E pos \in Positions : pos[2] = 2

\* C15: the key a record is uploaded under is the destination prefix without
\* its trailing slashes, one slash, and the part of the source key after its
\* last slash; the object is in the bucket the source object came from.
C15_DestinationKeyConstruction ==
    \A n \in 1..Len(log) :
        log[n].op = "put"
        => LET p == DESTINATION_PREFIX
               k == log[n].key
               d == log[n].destination_key
               \* where the trailing slashes of p begin, and where in k the part
               \* after the last slash begins
               cut == {q \in 0..Len(p) : /\ q = 0 \/ p[q] # "/"
                                         /\ \A x \in (q + 1)..Len(p) : p[x] = "/"}
               base == {b \in 1..(Len(k) + 1) : /\ b = 1 \/ k[b - 1] = "/"
                                                /\ \A x \in b..Len(k) : k[x] # "/"}
           IN /\ \E q \in cut, b \in base :
                    d = SubSeq(p, 1, q) \o <<"/">> \o SubSeq(k, b, Len(k))
              /\ log[n].bucket = event[log[n].i].Records[log[n].j].bucket
              /\ <<log[n].bucket, d>> \in DOMAIN s3

\* v/a was uploaded as p/a under the prefix p//
C15_Witness ==
    /\ DESTINATION_PREFIX = <<"p", "/", "/">>
    /\ \E n \in 1..Len(log) :
          /\ log[n].op = "put"
          /\ log[n].key = K_va
          /\ log[n].destination_key = <<"p", "/", "a">>
    /\ <<"m", <<"p", "/", "a">>>> \in DOMAIN s3

\* ----------------------------------------------- redelivery until it succeeds
\* a collaborator fails for a while: only as long as a redelivery is to come
TransientError ==
    /\ invocations < MaxInvocations
    /\ CollaboratorError

\* the steps the handler takes by itself once it was invoked; nobody replaces
\* a source object here, so every file that is downloaded is an image
HandlerStep ==
    \/ ParseMessage \/ ParseFails \/ ReturnOk \/ EndOfMessage \/ SkipRecord
    \/ BeginRecord \/ Download \/ DownloadFails \/ Resize
    \/ Upload \/ WriteMetadata \/ NextRecord

RedeliveryNext ==
    \/ ColdStart
    \/ Deliver
    \/ Redrive
    \/ ParseMessage
    \/ ParseFails
    \/ ReturnOk
    \/ EndOfMessage
    \/ SkipRecord
    \/ BeginRecord
    \/ Download
    \/ DownloadFails
    \/ Resize
    \/ Upload
    \/ WriteMetadata
    \/ NextRecord
    \/ TransientError

\* an invocation runs to its end and a failed batch is delivered again
RedeliverySpec ==
    Init /\ [][RedeliveryNext]_vars /\ WF_vars(HandlerStep) /\ WF_vars(Redrive)

FileNames == {BaseName(UnquotePlus(n.key)) : n \in Notifs}

\* the destination object of file_name exists and no item has its ImageID
Orphaned(file_name) ==
    /\ \E bucket \in Buckets :
          <<bucket, DestinationKey(DESTINATION_PREFIX, file_name)>> \in DOMAIN s3
    /\ ~\E r \in table : r.ImageID = file_name

\* C12: when an invocation failed between the upload and the item of a record,
\* the redeliveries lead to a 'processed' item for it; and at no time is there
\* an item whose destination object does not exist.
C12_EventualRecord ==
    /\ [](\A r \in table :
             /\ r.Status = "processed"
             /\ \E bucket \in Buckets : <<bucket, r.ProcessedKey>> \in DOMAIN s3)
    /\ \A file_name \in FileNames :
          (pc = "failed" /\ Orphaned(file_name))
          ~> (\E r \in table : /\ r.ImageID = file_name
                                /\ r.Status = "processed"
                                /\ r.ProcessedKey
                                     = DestinationKey(DESTINATION_PREFIX, file_name))

\* the batch is being delivered again after a failure that left the uploaded
\* object without its item
C12_Witness ==
    /\ pc = "loop_sqs"
    /\ log = <<>>
    /\ failedBefore
    /\ invocations = 2
    /\ Orphaned(<<"a">>)

\* ------------------------------------------------------------- resize laws
\* resize_image on its own: the worker has downloaded some file and is about to
\* resize it to some target width
ResizeInputs == {Img(w, h) : w \in 1..MaxSide, h \in 1..MaxSide} \cup {NotAnImage}

ResizeInit ==
    \E width \in 1..MaxSide, file \in ResizeInputs :
        /\ env = [DESTINATION_PREFIX |-> <<"p", "/">>,
                  TARGET_WIDTH |-> <<CHOOSE c \in DOMAIN DigitValue : DigitValue[c] = width>>,
                  DYNAMODB_TABLE_NAME |-> <<"t">>]
        /\ DESTINATION_PREFIX = <<"p", "/">>
        /\ TARGET_WIDTH = width
        /\ TABLE_NAME = <<"t">>
        /\ startupError = [type |-> "", names |-> <<>>]
        /\ pc = "resize"
        /\ event = <<[ok |-> TRUE, Records |-> <<[bucket |-> "m", key |-> K_ua]>>]>>
        /\ i = 1
        /\ j = 1
        /\ local = [NoLocal EXCEPT !.source_bucket = "m", !.object_key = K_ua,
                                   !.file_name = BaseName(K_ua), !.downloaded = file]
        /\ s3 = (<<"m", K_ua>> :> file)
        /\ table = {}
        /\ now = 0
        /\ emitted = {}
        /\ log = <<[op |-> "download", i |-> 1, j |-> 1, bucket |-> "m", key |-> K_ua]>>
        /\ errored = FALSE
        /\ invocations = 1
        /\ recorded = <<>>
        /\ producedIn = <<>>
        /\ snap = [s3 |-> (<<"m", K_ua>> :> file), table |-> {}]
        /\ failedBefore = FALSE
        /\ TtlAtRest
        /\ ReplicaAtRest

ResizeNext ==
    \/ Resize
    \/ ResizeFails

ResizeSpec == ResizeInit /\ [][ResizeNext]_vars

\* C16: an image that is not wider than the target width keeps its width,
\* whatever its height.
C16_PassThrough ==
    (pc = "upload" /\ local.downloaded.w <= TARGET_WIDTH)
    => local.resized.w = local.downloaded.w

\* C17: an image wider than the target width comes out no wider than the
\* target, with the height of the input scaled by output width over input
\* width to within one pixel, and in no dimension larger than the input.
C17_AspectRatio ==
    (pc = "upload" /\ TARGET_WIDTH < local.downloaded.w)
    => LET in == local.downloaded
           out == local.resized
       IN /\ out.w <= TARGET_WIDTH
          /\ AbsDiff(out.h * in.w, in.h * out.w) <= in.w
          /\ out.w <= in.w
          /\ out.h <= in.h

\* ------------------------------------------------ update_ttl.py: the refresher
\* new_expiration_time = int(time.time()) + 3600
ExpirationSeconds == 3600

LockIDs == {"a"}

\* the ExpirationTime values other writers put: one long past, one far ahead
ExternalExpirations == {0, ExpirationSeconds + MaxEpoch + 1}

\* record['eventName'] in ['INSERT', 'MODIFY']
Refreshable(eventName) == eventName \in {"INSERT", "MODIFY"}

\* int(response['Item']['ExpirationTime']['N']) if 'Item' in response else 0
CurrentExpiration(lock_id) == IF lock_id \in DOMAIN locks THEN locks[lock_id] ELSE 0

NewExpirationTime == epoch + ExpirationSeconds

\* current_expiration >= new_expiration_time: the record is skipped
UpToDate(current_expiration, new_expiration_time) ==
    current_expiration >= new_expiration_time

\* update_item with "SET ExpirationTime = :et": the item is created when absent
UpdateItem(tbl, lock_id, expiration) == (lock_id :> expiration) @@ tbl

\* the stream record the table raises for a change of lock_id; depth counts the
\* refresher's own writes on the way from a change of another writer to it
StreamRecord(tbl, lock_id, depth) ==
    [eventName |-> IF lock_id \in DOMAIN tbl THEN "MODIFY" ELSE "INSERT",
     lock_id |-> lock_id, depth |-> depth]

\* the loop goes on with the next record; the locals of the body are dead
NextStreamRecord(r) ==
    [r EXCEPT !.pc = "loop", !.handled = @ \cup {r.idx}, !.idx = @ + 1, !.lock_id = "",
              !.current_expiration = 0, !.new_expiration_time = 0]

\* the exception leaves the handler
OnRecordErrorRaise(r) == [r EXCEPT !.pc = "raised"]

\* except Exception: the failure is logged and counted
OnRecordError(r) == NextStreamRecord([r EXCEPT !.failed_records = @ + 1])

\* 200 if failed_records == 0 else 207
StatusCode(failed_records) == IF failed_records = 0 THEN 200 ELSE 207

Min2(a, b) == IF a <= b THEN a ELSE b

\* the stream hands an invocation its next records; a further slot is taken
\* only while the slots before it are busy
TtlInvoke(p) ==
    /\ run[p].pc \in {"idle", "done"}
    /\ \A q \in Slots : q < p => run[q].pc \in {"loop", "update"}
    /\ stream # <<>>
    /\ \E n \in 1..Min2(Len(stream), MaxBatch) :
          /\ run' = [run EXCEPT ![p] = [NoRun EXCEPT !.pc = "loop", !.idx = 1,
                                                     !.records = SubSeq(stream, 1, n)]]
          /\ stream' = SubSeq(stream, n + 1, Len(stream))
    /\ UNCHANGED <<vars, replicaVars, locks, epoch, changes>>

\* a REMOVE record: nothing is read and nothing written
TtlIgnore(p) ==
    /\ run[p].pc = "loop"
    /\ run[p].idx <= Len(run[p].records)
    /\ ~Refreshable(run[p].records[run[p].idx].eventName)
    /\ run' = [run EXCEPT ![p] = NextStreamRecord(run[p])]
    /\ UNCHANGED <<vars, replicaVars, locks, epoch, stream, changes>>

\* get_item, the new expiration time and the comparison of the two
TtlRead(p) ==
    /\ run[p].pc = "loop"
    /\ run[p].idx <= Len(run[p].records)
    /\ Refreshable(run[p].records[run[p].idx].eventName)
    /\ LET lock_id == run[p].records[run[p].idx].lock_id
           current_expiration == CurrentExpiration(lock_id)
           new_expiration_time == NewExpirationTime
       IN run' = [run EXCEPT ![p] =
                    IF UpToDate(current_expiration, new_expiration_time)
                    THEN NextStreamRecord(run[p])
                    ELSE [run[p] EXCEPT !.pc = "update", !.lock_id = lock_id,
                                        !.current_expiration = current_expiration,
                                        !.new_expiration_time = new_expiration_time]]
    /\ UNCHANGED <<vars, replicaVars, locks, epoch, stream, changes>>

\* update_item writes new_expiration_time; the table raises a stream record
\* when the item changed
TtlUpdate(p) ==
    /\ run[p].pc = "update"
    /\ locks' = UpdateItem(locks, run[p].lock_id, run[p].new_expiration_time)
    /\ stream' = IF locks' = locks THEN stream
                 ELSE Append(stream, StreamRecord(locks, run[p].lock_id,
                                                  run[p].records[run[p].idx].depth + 1))
    /\ run' = [run EXCEPT ![p] =
                 NextStreamRecord([run[p] EXCEPT !.processed_records = @ + 1])]
    /\ UNCHANGED <<vars, replicaVars, epoch, changes>>

\* get_item or update_item raises
TtlRecordError(p) ==
    /\ \/ /\ run[p].pc = "loop"
          /\ run[p].idx <= Len(run[p].records)
          /\ Refreshable(run[p].records[run[p].idx].eventName)
       \/ run[p].pc = "update"
    /\ run' = [run EXCEPT ![p] = OnRecordError(run[p])]
    /\ UNCHANGED <<vars, replicaVars, locks, epoch, stream, changes>>

\* the loop is over: the handler returns the status code
TtlReturn(p) ==
    /\ run[p].pc = "loop"
    /\ run[p].idx > Len(run[p].records)
    /\ run' = [run EXCEPT ![p].pc = "done",
                          ![p].statusCode = StatusCode(run[p].failed_records)]
    /\ UNCHANGED <<vars, replicaVars, locks, epoch, stream, changes>>

\* another writer (Terraform taking a lock, an operator) writes an item
ExternalPut(lock_id, expiration) ==
    /\ changes < MaxChanges
    /\ changes' = changes + 1
    /\ locks' = UpdateItem(locks, lock_id, expiration)
    /\ stream' = Append(stream, StreamRecord(locks, lock_id, 0))
    /\ UNCHANGED <<vars, replicaVars, epoch, run>>

\* another writer, or the table's TTL, deletes an item
ExternalDelete(lock_id) ==
    /\ changes < MaxChanges
    /\ lock_id \in DOMAIN locks
    /\ changes' = changes + 1
    /\ locks' = [l \in DOMAIN locks \ {lock_id} |-> locks[l]]
    /\ stream' = Append(stream, [eventName |-> "REMOVE", lock_id |-> lock_id, depth |-> 0])
    /\ UNCHANGED <<vars, replicaVars, epoch, run>>

\* a second passes
TtlTick ==
    /\ epoch < MaxEpoch
    /\ epoch' = epoch + 1
    /\ UNCHANGED <<vars, replicaVars, locks, stream, run, changes>>

TtlInit ==
    /\ env = [DESTINATION_PREFIX |-> <<"p", "/">>, TARGET_WIDTH |-> <<"2">>,
              DYNAMODB_TABLE_NAME |-> <<"t">>]
    /\ DESTINATION_PREFIX = <<>>
    /\ TARGET_WIDTH = 0
    /\ TABLE_NAME = <<>>
    /\ startupError = [type |-> "", names |-> <<>>]
    /\ pc = "cold"
    /\ event = <<>>
    /\ i = 0
    /\ j = 0
    /\ local = NoLocal
    /\ s3 = InitialBucket
    /\ table = {}
    /\ now = 0
    /\ emitted = {}
    /\ log = <<>>
    /\ errored = FALSE
    /\ invocations = 0
    /\ recorded = <<>>
    /\ producedIn = <<>>
    /\ snap = [s3 |-> InitialBucket, table |-> {}]
    /\ failedBefore = FALSE
    /\ TtlAtRest
    /\ ReplicaAtRest

TtlNext ==
    \/ \E p \in Slots : TtlInvoke(p)
    \/ \E p \in Slots : TtlIgnore(p)
    \/ \E p \in Slots : TtlRead(p)
    \/ \E p \in Slots : TtlUpdate(p)
    \/ \E p \in Slots : TtlRecordError(p)
    \/ \E p \in Slots : TtlReturn(p)
    \/ \E lock_id \in LockIDs, expiration \in ExternalExpirations :
          ExternalPut(lock_id, expiration)
    \/ \E lock_id \in LockIDs : ExternalDelete(lock_id)
    \/ TtlTick

TtlSpec == TtlInit /\ [][TtlNext]_<<vars, ttlVars>>

\* C18: the chain of writes that one change of another writer sets off comes
\* to an end while the clock runs on: with a single such change, no stream
\* record is as many of the refresher's own writes away from it as the clock
\* has seconds.
C18_FeedbackLoopEnds ==
    changes <= 1 => \A n \in 1..Len(stream) : stream[n].depth <= MaxEpoch

\* the values the refresher writes
RefresherExpirations == {t + ExpirationSeconds : t \in 0..MaxEpoch}

\* C19: no update_item of the refresher lowers the ExpirationTime of an item:
\* not even that which another invocation of the refresher wrote between the
\* read and the write of this one.
C19_ExpirationNeverDecreases ==
    [][\A lock_id \in DOMAIN locks :
          ((\E p \in Slots : TtlUpdate(p)) /\ locks[lock_id] \in RefresherExpirations)
          => locks'[lock_id] >= locks[lock_id]]_<<vars, ttlVars>>

\* the INSERT and MODIFY records among the first n records of a batch
Refreshables(records, n) ==
    {k \in 1..Min2(n, Len(records)) : Refreshable(records[k].eventName)}

\* C20: a failure at one record stays in the handler: the loop goes on with the
\* next record and the handler returns, with 200 exactly when no record failed
\* and 207 otherwise, after it has handled every record of the batch; processed
\* and failed records together are never more than the INSERT and MODIFY
\* records handled so far.
C20_FailureIsolation ==
    \A p \in Slots :
        LET r == run[p]
        IN /\ r.pc \in {"idle", "loop", "update", "done"}
           /\ r.pc \in {"loop", "update", "done"}
              => /\ r.handled = 1..(r.idx - 1)
                 /\ r.processed_records + r.failed_records
                        <= Cardinality(Refreshables(r.records, r.idx - 1))
           /\ r.pc = "done"
              => /\ r.handled = 1..Len(r.records)
                 /\ r.processed_records + r.failed_records
                        <= Cardinality(Refreshables(r.records, Len(r.records)))
                 /\ r.statusCode = 200 <=> r.failed_records = 0
                 /\ r.statusCode = 207 <=> r.failed_records # 0

\* the first record of a batch failed, the second was written, and the
\* handler returned 207
C20_Witness ==
    \E p \in Slots :
        /\ run[p].pc = "done"
        /\ Len(run[p].records) = 2
        /\ run[p].failed_records = 1
        /\ run[p].processed_records = 1
        /\ run[p].statusCode = 207
        /\ \E lock_id \in DOMAIN locks : locks[lock_id] = epoch + ExpirationSeconds

\* ---------------------------------------------------------------------
\* create_read_replica.py and delete_read_replica.py

MaxCalls == 2

\* os.getenv of a variable that is not set
None == "None"

\* `not value` of a value read from the environment or the event
Missing(value) == value \in {None, ""}

\* os.getenv(name, default)
GetEnv(name, default) == IF renv[name] = None THEN default ELSE renv[name]

\* os.getenv("ENVIRONMENT", "dev") and os.getenv("NAME_PREFIX", "mydb")
ENVIRONMENT == "dev"
NAME_PREFIX == "mydb"

\* f"{name_prefix}-replica-{replica_index}-{environment}"
ReadReplicaIdentifier(name_prefix, replica_index, environment) ==
    name_prefix \o "-replica-" \o ToString(replica_index) \o "-" \o environment

\* the two key schemas a table can have that answers the query of
\* get_next_replica_index by db_instance_identifier alone
KeySchemas == {{"db_instance_identifier"}, {"db_instance_identifier", "replica_index"}}

\* the primary key of an item
KeyOf(schema, item) == [a \in schema |-> item[a]]

\* dynamodb_client.put_item in track_replica_status: the item replaces the
\* one with its key
TrackReplicaStatus(schema, tbl, db_instance_identifier, replica_index, status) ==
    LET item == [db_instance_identifier |-> db_instance_identifier,
                 replica_index |-> replica_index, status |-> status]
    IN  {t \in tbl : KeyOf(schema, t) # KeyOf(schema, item)} \cup {item}

\* dynamodb_client.query by db_instance_identifier
Query(tbl, db_instance_identifier) ==
    {t \in tbl : t.db_instance_identifier = db_instance_identifier}

\* [int(item["replica_index"]["N"]) for item in items]
ExistingIndices(items) == {t.replica_index : t \in items}

\* get_next_replica_index once the query has answered; an item without a
\* replica_index raises, which the function turns into 1
GetNextReplicaIndex(items) ==
    IF items = {} THEN 1
    ELSE IF \E t \in items : "replica_index" \notin DOMAIN t THEN 1
    ELSE LET existing_indices == ExistingIndices(items)
         IN  (CHOOSE m \in existing_indices : \A k \in existing_indices : k <= m) + 1

\* dynamodb_client.update_item in update_replica_status_in_dynamodb, with
\* Key = {db_instance_identifier: read_replica_identifier}: a table with a
\* sort key rejects the key and the function only logs that; a table without
\* one sets the status of that item, creating it when it is not there
UpdateReplicaStatus(schema, tbl, read_replica_identifier, status) ==
    IF schema # {"db_instance_identifier"} THEN tbl
    ELSE IF \E t \in tbl : t.db_instance_identifier = read_replica_identifier
         THEN {IF t.db_instance_identifier = read_replica_identifier
               THEN [t EXCEPT !.status = status] ELSE t : t \in tbl}
         ELSE tbl \cup {[db_instance_identifier |-> read_replica_identifier,
                         status |-> status]}

\* a further slot is taken only while the slots before it are busy
SlotFree(c) ==
    /\ call[c].pc \in {"idle", "done", "raised"}
    /\ \A q \in ReplicaSlots : q < c => call[q].pc \notin {"idle", "done", "raised"}
    /\ calls < MaxCalls

\* lambda_handler of create_read_replica.py up to the call of
\* get_next_replica_index: both identifiers are required
CreateInvoke(c) ==
    /\ SlotFree(c)
    /\ calls' = calls + 1
    /\ call' = [call EXCEPT ![c] =
          IF Missing(renv.DYNAMODB_TABLE_NAME) \/ Missing(renv.DB_INSTANCE_IDENTIFIER)
          THEN [NoCall EXCEPT !.pc = "raised", !.fn = "create"]
          ELSE [NoCall EXCEPT !.pc = "query", !.fn = "create",
                              !.db_instance_identifier = renv.DB_INSTANCE_IDENTIFIER]]
    /\ UNCHANGED <<vars, ttlVars, renv, keySchema, tracking, rds, published, chosen>>

\* get_next_replica_index: one more than the largest recorded index, 1 when
\* nothing is recorded and 1 when the query fails
CreateQuery(c) ==
    /\ call[c].pc = "query"
    /\ \E ok \in BOOLEAN :
          LET items == Query(tracking, call[c].db_instance_identifier)
              next_index == IF ok THEN GetNextReplicaIndex(items) ELSE 1
          IN  /\ call' = [call EXCEPT ![c].pc = "track_creating",
                                      ![c].replica_index = next_index,
                                      ![c].read_replica_identifier =
                                          ReadReplicaIdentifier(NAME_PREFIX, next_index, ENVIRONMENT),
                                      ![c].effects = Append(@, "query")]
              /\ chosen' = Append(chosen, [replica_index |-> next_index,
                                           recorded |-> ExistingIndices(
                                               {t \in items : "replica_index" \in DOMAIN t})])
    /\ UNCHANGED <<vars, ttlVars, renv, keySchema, tracking, rds, published, calls>>

\* track_replica_status(..., "creating"); a failed put_item is only logged
CreateTrack(c) ==
    /\ call[c].pc = "track_creating"
    /\ \E ok \in BOOLEAN :
          tracking' = IF ok
                      THEN TrackReplicaStatus(keySchema, tracking, call[c].db_instance_identifier,
                                              call[c].replica_index, "creating")
                      ELSE tracking
    /\ call' = [call EXCEPT ![c].pc = "create", ![c].effects = Append(@, "put_item")]
    /\ UNCHANGED <<vars, ttlVars, renv, keySchema, rds, published, calls, chosen>>

\* rds_client.create_db_instance_read_replica: an identifier that is taken is
\* a ClientError, and the call can fail for other reasons
CreateReadReplica(c) ==
    /\ call[c].pc = "create"
    /\ \E outcome \in {"created", "ClientError", "Exception"} :
          /\ call[c].read_replica_identifier \in DOMAIN rds => outcome = "ClientError"
          /\ rds' = IF outcome = "created"
                    THEN rds @@ (call[c].read_replica_identifier :> "available")
                    ELSE rds
          /\ call' = [call EXCEPT
                ![c].pc = IF outcome = "created" THEN "track_available" ELSE "track_error",
                ![c].status = IF outcome = "created" THEN "success" ELSE "error",
                ![c].subject = CASE outcome = "created" -> "RDS Replica Creation Success"
                                 [] outcome = "ClientError" -> "RDS Replica Creation Error"
                                 [] OTHER -> "RDS Replica Creation Unexpected Error",
                ![c].effects = Append(@, "create_db_instance_read_replica")]
    /\ UNCHANGED <<vars, ttlVars, renv, keySchema, tracking, published, calls, chosen>>

\* track_replica_status(..., "available") after the call, (..., "error") in
\* the handlers of its exceptions
CreateTrackOutcome(c) ==
    /\ call[c].pc \in {"track_available", "track_error"}
    /\ \E ok \in BOOLEAN :
          tracking' = IF ok
                      THEN TrackReplicaStatus(keySchema, tracking, call[c].db_instance_identifier,
                                              call[c].replica_index,
                                              IF call[c].pc = "track_available"
                                              THEN "available" ELSE "error")
                      ELSE tracking
    /\ call' = [call EXCEPT ![c].pc = "notify", ![c].effects = Append(@, "put_item")]
    /\ UNCHANGED <<vars, ttlVars, renv, keySchema, rds, published, calls, chosen>>

\* send_sns_notification and the return of the handler: nothing is published
\* without a topic, and a failed publish is only logged
Notify(c) ==
    /\ call[c].pc = "notify"
    /\ \E ok \in BOOLEAN :
          published' = IF ~Missing(renv.SNS_TOPIC_ARN) /\ ok
                       THEN Append(published, call[c].subject)
                       ELSE published
    /\ call' = [call EXCEPT ![c].pc = "done",
                            ![c].effects = Append(@, "send_sns_notification")]
    /\ UNCHANGED <<vars, ttlVars, renv, keySchema, tracking, rds, calls, chosen>>

\* event.get("read_replica_identifier") of the events the function is invoked with
EventIdentifiers == {None, ReadReplicaIdentifier(NAME_PREFIX, 1, ENVIRONMENT)}

\* lambda_handler of delete_read_replica.py up to the existence check: the
\* table name and the identifier, from the environment or else from the
\* event, are required
DeleteInvoke(d) ==
    /\ SlotFree(d)
    /\ calls' = calls + 1
    /\ \E event_identifier \in EventIdentifiers :
          LET read_replica_identifier == GetEnv("READ_REPLICA_IDENTIFIER", event_identifier)
          IN  call' = [call EXCEPT ![d] =
                 IF Missing(renv.DYNAMODB_TABLE_NAME) \/ Missing(read_replica_identifier)
                 THEN [NoCall EXCEPT !.pc = "raised", !.fn = "delete",
                                     !.event = event_identifier]
                 ELSE [NoCall EXCEPT !.pc = "describe", !.fn = "delete",
                                     !.event = event_identifier,
                                     !.read_replica_identifier = read_replica_identifier]]
    /\ UNCHANGED <<vars, ttlVars, renv, keySchema, tracking, rds, published, chosen>>

\* a mistaken existence check: a replica that is not found is deleted all the same
AfterDescribeDeleteAnyway(outcome) ==
    CASE outcome \in {"found", "DBInstanceNotFoundFault"} ->
             [pc |-> "delete", status |-> "", subject |-> ""]
      [] outcome = "ClientError" ->
             [pc |-> "notify", status |-> "error", subject |-> "RDS Replica Deletion Error"]
      [] OTHER -> [pc |-> "raised", status |-> "", subject |-> ""]

\* where the handler goes after rds_client.describe_db_instances: on to the
\* deletion, out with "success" when the replica is not found, to the
\* notification of the error on another ClientError; any other exception
\* leaves the handler
AfterDescribe(outcome) ==
    CASE outcome = "found" -> [pc |-> "delete", status |-> "", subject |-> ""]
      [] outcome = "DBInstanceNotFoundFault" ->
             [pc |-> "done", status |-> "success", subject |-> ""]
      [] outcome = "ClientError" ->
             [pc |-> "notify", status |-> "error", subject |-> "RDS Replica Deletion Error"]
      [] OTHER -> [pc |-> "raised", status |-> "", subject |-> ""]

\* rds_client.describe_db_instances(DBInstanceIdentifier=read_replica_identifier)
DeleteDescribe(d) ==
    /\ call[d].pc = "describe"
    /\ \E outcome \in {"found", "DBInstanceNotFoundFault", "ClientError", "Exception"} :
          /\ outcome = "found" => call[d].read_replica_identifier \in DOMAIN rds
          /\ outcome = "DBInstanceNotFoundFault" =>
                 call[d].read_replica_identifier \notin DOMAIN rds
          /\ call' = [call EXCEPT ![d].pc = AfterDescribe(outcome).pc,
                                  ![d].status = AfterDescribe(outcome).status,
                                  ![d].subject = AfterDescribe(outcome).subject,
                                  ![d].described = outcome,
                                  ![d].effects = Append(@, "describe_db_instances")]
    /\ UNCHANGED <<vars, ttlVars, renv, keySchema, tracking, rds, published, calls, chosen>>

\* rds_client.delete_db_instance: a replica that is gone by now or is being
\* deleted already is a ClientError, and the call can fail for other reasons
DeleteDbInstance(d) ==
    /\ call[d].pc = "delete"
    /\ \E outcome \in {"deleted", "ClientError", "Exception"} :
          /\ outcome = "deleted" =>
                 /\ call[d].read_replica_identifier \in DOMAIN rds
                 /\ rds[call[d].read_replica_identifier] = "available"
          /\ rds' = IF outcome = "deleted"
                    THEN [rds EXCEPT ![call[d].read_replica_identifier] = "deleting"]
                    ELSE rds
          /\ call' = [call EXCEPT
                ![d].pc = IF outcome = "deleted" THEN "update_deleted" ELSE "update_error",
                ![d].status = IF outcome = "deleted" THEN "success" ELSE "error",
                ![d].subject = CASE outcome = "deleted" -> "RDS Replica Deletion Success"
                                 [] outcome = "ClientError" -> "RDS Replica Deletion Error"
                                 [] OTHER -> "RDS Replica Deletion Unexpected Error",
                ![d].effects = Append(@, "delete_db_instance")]
    /\ UNCHANGED <<vars, ttlVars, renv, keySchema, tracking, published, calls, chosen>>

\* update_replica_status_in_dynamodb(read_replica_identifier, "deleted") after
\* the call, (..., "error") in the handlers of its exceptions; a failed
\* update_item is only logged
DeleteUpdate(d) ==
    /\ call[d].pc \in {"update_deleted", "update_error"}
    /\ \E ok \in BOOLEAN :
          tracking' = IF ok
                      THEN UpdateReplicaStatus(keySchema, tracking,
                                               call[d].read_replica_identifier,
                                               IF call[d].pc = "update_deleted"
                                               THEN "deleted" ELSE "error")
                      ELSE tracking
    /\ call' = [call EXCEPT ![d].pc = "notify", ![d].effects = Append(@, "update_item")]
    /\ UNCHANGED <<vars, ttlVars, renv, keySchema, rds, published, calls, chosen>>

\* the database service finishes the deletion of a replica
DeletionCompletes(read_replica_identifier) ==
    /\ read_replica_identifier \in DOMAIN rds
    /\ rds[read_replica_identifier] = "deleting"
    /\ rds' = [x \in DOMAIN rds \ {read_replica_identifier} |-> rds[x]]
    /\ UNCHANGED <<vars, ttlVars, renv, keySchema, tracking, published, call, calls, chosen>>

\* the environments the two functions are deployed with
ReplicaEnvs ==
    [DYNAMODB_TABLE_NAME : {None, "replicas"},
     DB_INSTANCE_IDENTIFIER : {None, "db"},
     READ_REPLICA_IDENTIFIER : {None, "", ReadReplicaIdentifier(NAME_PREFIX, 1, ENVIRONMENT)},
     SNS_TOPIC_ARN : {None, "arn"}]

\* what an earlier, undisturbed invocation of create_read_replica.py left
\* behind: the first replica and its tracking item
FirstReplicaCreated ==
    /\ ~Missing(renv.DYNAMODB_TABLE_NAME)
    /\ ~Missing(renv.DB_INSTANCE_IDENTIFIER)
    /\ tracking = TrackReplicaStatus(keySchema, {}, renv.DB_INSTANCE_IDENTIFIER,
                                     GetNextReplicaIndex({}), "available")
    /\ rds = (ReadReplicaIdentifier(NAME_PREFIX, GetNextReplicaIndex({}), ENVIRONMENT)
                  :> "available")

ReplicaInit ==
    /\ env = [DESTINATION_PREFIX |-> <<"p", "/">>, TARGET_WIDTH |-> <<"2">>,
              DYNAMODB_TABLE_NAME |-> <<"t">>]
    /\ DESTINATION_PREFIX = <<>>
    /\ TARGET_WIDTH = 0
    /\ TABLE_NAME = <<>>
    /\ startupError = [type |-> "", names |-> <<>>]
    /\ pc = "cold"
    /\ event = <<>>
    /\ i = 0
    /\ j = 0
    /\ local = NoLocal
    /\ s3 = InitialBucket
    /\ table = {}
    /\ now = 0
    /\ emitted = {}
    /\ log = <<>>
    /\ errored = FALSE
    /\ invocations = 0
    /\ recorded = <<>>
    /\ producedIn = <<>>
    /\ snap = [s3 |-> InitialBucket, table |-> {}]
    /\ failedBefore = FALSE
    /\ TtlAtRest
    /\ renv \in ReplicaEnvs
    /\ keySchema \in KeySchemas
    /\ \/ tracking = {} /\ rds = <<>>
       \/ FirstReplicaCreated
    /\ published = <<>>
    /\ call = [c \in ReplicaSlots |-> NoCall]
    /\ calls = 0
    /\ chosen = <<>>

ReplicaNext ==
    \/ \E c \in ReplicaSlots : CreateInvoke(c)
    \/ \E c \in ReplicaSlots : CreateQuery(c)
    \/ \E c \in ReplicaSlots : CreateTrack(c)
    \/ \E c \in ReplicaSlots : CreateReadReplica(c)
    \/ \E c \in ReplicaSlots : CreateTrackOutcome(c)
    \/ \E d \in ReplicaSlots : DeleteInvoke(d)
    \/ \E d \in ReplicaSlots : DeleteDescribe(d)
    \/ \E d \in ReplicaSlots : DeleteDbInstance(d)
    \/ \E d \in ReplicaSlots : DeleteUpdate(d)
    \/ \E c \in ReplicaSlots : Notify(c)
    \/ \E read_replica_identifier \in DOMAIN rds : DeletionCompletes(read_replica_identifier)

ReplicaSpec == ReplicaInit /\ [][ReplicaNext]_<<vars, ttlVars, replicaVars>>

\* C21: the index an invocation of create_read_replica takes is greater than
\* every index recorded for the instance when it takes it, and no two
\* invocations take the same index (and with it the same tracking key and the
\* same replica identifier)
C21_ReplicaIndexUnique ==
    /\ \A n \in 1..Len(chosen) :
          \A k \in chosen[n].recorded : chosen[n].replica_index > k
    /\ \A a, b \in 1..Len(chosen) :
          a # b => chosen[a].replica_index # chosen[b].replica_index

\* the tracking items that create_read_replica wrote for a replica
TrackedAs(read_replica_identifier) ==
    {t \in tracking :
        /\ "replica_index" \in DOMAIN t
        /\ ReadReplicaIdentifier(NAME_PREFIX, t.replica_index, ENVIRONMENT)
               = read_replica_identifier}

\* C22: once delete_read_replica has called delete_db_instance for a replica
\* and updated the table, the tracking item that create_read_replica wrote for
\* that replica has the status "deleted", or "error" when the call failed
C22_DeletionUpdatesTrackingRecord ==
    \A d \in ReplicaSlots :
        (/\ call[d].fn = "delete"
         /\ call[d].pc \in {"notify", "done"}
         /\ call[d].described = "found")
        => \A t \in TrackedAs(call[d].read_replica_identifier) :
               t.status = IF call[d].status = "success" THEN "deleted" ELSE "error"

\* C23: an invocation of delete_read_replica that is told the replica does not
\* exist ends with status "success" having made no call but the existence
\* check: no delete_db_instance, no update_item, no notification; and an
\* invocation without table name or without replica identifier raises having
\* made no call at all
C23_NothingToDelete ==
    \A d \in ReplicaSlots :
        call[d].fn = "delete" =>
            /\ call[d].described = "DBInstanceNotFoundFault" =>
                  /\ call[d].pc = "done"
                  /\ call[d].status = "success"
                  /\ call[d].effects = <<"describe_db_instances">>
            /\ (\/ Missing(renv.DYNAMODB_TABLE_NAME)
                \/ Missing(GetEnv("READ_REPLICA_IDENTIFIER", call[d].event))) =>
                  /\ call[d].pc = "raised"
                  /\ call[d].effects = <<>>

\* a second invocation after a completed deletion: the deletion was notified,
\* the replica is gone, and the invocation was told so
C23_Witness ==
    \E d \in ReplicaSlots :
        /\ call[d].fn = "delete"
        /\ call[d].pc = "done"
        /\ call[d].described = "DBInstanceNotFoundFault"
        /\ call[d].read_replica_identifier \notin DOMAIN rds
        /\ \E n \in 1..Len(published) : published[n] = "RDS Replica Deletion Success"
====
